---- MODULE Spec2Model ----
(***************************************************************************)
(* Meal ordering system: the service layer of app/services_fixed.py run    *)
(* by concurrent requests against one shared database.                     *)
(*                                                                         *)
(* Every request opens its own session (get_session).  A step of a request *)
(* is one storage statement (a SELECT, session.get, or a commit); steps of *)
(* different requests interleave.  Money is held in whole cents (Decimal    *)
(* with two places).                                                       *)
(***************************************************************************)
EXTENDS Integers, Sequences, FiniteSets, TLC

\* ---------------------------------------------------------------- bounds
NumProcs == 2        \* request slots that may be in flight together
NumUsers == 2
NumDishes == 2
MaxStock == 2        \* largest stock an admin or the seed writes
MaxQty == 2          \* largest quantity of one add_to_cart request
MaxCartId == 2       \* cart rows inserted in one behaviour
MaxOrders == 2       \* order rows inserted in one behaviour
MaxAdminCalls == 1   \* update_dish / delete_dish requests in one behaviour
MaxStatusCalls == 2  \* update_order_status requests in one behaviour

Procs == 1..NumProcs
Users == 1..NumUsers
DishIds == 1..NumDishes
MissingDishId == NumDishes + 1          \* an id with no dish row
DishIdInputs == DishIds \cup {MissingDishId}

\* prices in cents: 15.99 and 12.99 (tests/test_working.py)
PriceA == 1599
PriceB == 1299
SeedPrice(d) == IF d = 1 THEN PriceA ELSE PriceB
\* the values an admin writes: a new price of 9.99 (seed_data.py), stock sold out
PriceC == 999
PriceUpdates == {PriceC}
StockUpdates == {0}

\* the seeded menu: the first dish fully stocked, a single portion of the others
SeedStock(d) == IF d = 1 THEN MaxStock ELSE 1

OrderStatus == {"pending", "confirmed", "preparing", "ready", "completed", "cancelled"}

VARIABLES
    dishes,      \* table dishes: id -> [price, stock_quantity, is_available]
    cart,        \* table cart_items: set of [id, user_id, dish_id, quantity]
    nextCartId,  \* next primary key of cart_items
    orders,      \* table orders: sequence, index = id, of [user_id, total_amount, status]
    items,       \* table order_items: sequence, index = id
    pc,          \* position of each request slot
    loc,         \* local variables and session of each request slot
    ret,         \* the value returned by the step just taken, if it ended a request
    pre,         \* serial execution only: the tables when the running request was called
    seed,        \* the dishes table as seeded (never changes)
    calls,       \* number of admin and of status requests made so far
    serial,      \* TRUE: requests run one after another (no interleaving)
    users,       \* table users: sequence, index = id
    departments, \* table departments: sequence, index = id
    storage,     \* app.storage.user of the browser session
    reg,         \* the user_data of each register_user request in flight
    typed,       \* history: the password each users row was registered with
    page         \* the page the browser shows, with the user_id its handlers hold

vars == <<dishes, cart, nextCartId, orders, items, pc, loc, ret, pre, seed, calls, serial,
          users, departments, storage, reg, typed, page>>
db == <<dishes, cart, nextCartId, orders, items>>
\* the account side: untouched by the catalogue, cart and order services
acct == <<users, departments, storage, reg, typed, page>>
\* the catalogue, cart and order side: untouched by the account services
shop == <<dishes, cart, nextCartId, orders, items, pc, loc, pre, seed, calls, serial>>

\* ---------------------------------------------------------------- helpers
NoDish == [exists |-> FALSE, price |-> 0, stock_quantity |-> 0, is_available |-> FALSE]
NoRow == [id |-> 0, user_id |-> 0, dish_id |-> 0, quantity |-> 0]
EmptyMap == [d \in {} |-> 0]

\* session.get(Dish, id): the row, or None
GetDish(tbl, d) ==
    IF d \in DOMAIN tbl
    THEN [exists |-> TRUE, price |-> tbl[d].price,
          stock_quantity |-> tbl[d].stock_quantity,
          is_available |-> tbl[d].is_available]
    ELSE NoDish

\* select(CartItem).where(CartItem.user_id == user_id)
CartOf(tbl, u) == {r \in tbl : r.user_id = u}

\* select(CartItem).where(user_id == u, dish_id == d)
CartRows(tbl, u, d) == {r \in tbl : r.user_id = u /\ r.dish_id = d}

RECURSIVE SortById(_)
SortById(S) ==
    IF S = {} THEN <<>>
    ELSE LET m == CHOOSE r \in S : \A q \in S : r.id <= q.id
         IN <<m>> \o SortById(S \ {m})

RECURSIVE SumSubtotals(_)
SumSubtotals(s) ==
    IF s = <<>> THEN 0 ELSE Head(s).subtotal + SumSubtotals(Tail(s))

ItemsOfOrder(tbl, o) == SelectSeq(tbl, LAMBDA it : it.order_id = o)

NoLoc == [user_id |-> 0, dish_id |-> 0, quantity |-> 0, dish |-> NoDish,
          existing_item |-> NoRow, cart_items |-> <<>>, idx |-> 0,
          session |-> EmptyMap, order_items_data |-> <<>>,
          total_amount |-> 0, order_id |-> 0]
NoRet == [op |-> "none", user_id |-> 0, dish_id |-> 0, quantity |-> 0, ok |-> FALSE, id |-> 0]
NoPre == [dishes |-> EmptyMap, cart |-> {}, orders |-> <<>>, items |-> <<>>]
Snapshot == [dishes |-> dishes, cart |-> cart, orders |-> orders, items |-> items]

\* A request takes the lowest free slot; under serial execution it waits
\* until no other request is in flight.
CanCall(p) ==
    /\ pc[p] = "idle"
    /\ \A q \in Procs : q < p => pc[q] # "idle"
    /\ serial => \A q \in Procs : pc[q] = "idle"

\* Admin and single-statement requests are not held in a slot.
CanCallAtomic == serial => \A q \in Procs : pc[q] = "idle"

Ordering(u) == \E q \in Procs : pc[q] \in {"order_validate", "order_insert", "order_stock", "order_commit"}
                                /\ loc[q].user_id = u

Result(op, u, ok, id) == [NoRet EXCEPT !.op = op, !.user_id = u, !.ok = ok, !.id = id]
AddResult(u, d, q, ok, id) == [op |-> "add", user_id |-> u, dish_id |-> d, quantity |-> q,
                               ok |-> ok, id |-> id]

\* the tables as the request that returns in this step found them at its call
Before == IF pre = NoPre THEN Snapshot ELSE pre

Return(p, r) ==
    /\ pc' = [pc EXCEPT ![p] = "idle"]
    /\ loc' = [loc EXCEPT ![p] = NoLoc]
    /\ ret' = r
    /\ pre' = NoPre

\* mutant of Refuse: a refused request empties the caller's cart on its way out
Refuse_ClearsCart(p, r) ==
    /\ pc' = [pc EXCEPT ![p] = "idle"]
    /\ loc' = [loc EXCEPT ![p] = NoLoc]
    /\ ret' = r
    /\ pre' = NoPre
    /\ cart' = {row \in cart : row.user_id # r.user_id}
    /\ UNCHANGED <<dishes, nextCartId, orders, items>>

\* "return None" inside the with-block: the session is closed with nothing
\* committed
Refuse(p, r) ==
    /\ Return(p, r)
    /\ UNCHANGED db

Continue(p, at, l) ==
    /\ pc' = [pc EXCEPT ![p] = at]
    /\ loc' = [loc EXCEPT ![p] = l]
    /\ ret' = NoRet
    /\ pre' = IF pc[p] = "idle" /\ serial THEN Snapshot ELSE pre

Adding == {q \in Procs : pc[q] \in {"add_find", "add_commit"}}
Inserting == {q \in Procs : pc[q] \in {"order_validate", "order_insert"}}

\* rows of the departments table
MaxDepartments == 3

\* ---------------------------------------------------------------- accounts
MaxRegistered == 2   \* users rows inserted by register_user in one behaviour

\* UserRole
UserRole == {"regular", "admin"}

\* the e-mail addresses typed in: the seeded admin's, and one in two spellings
AdminEmail == "admin@company.com"
Emails == {AdminEmail, "test@example.com", "Test@example.com"}

\* the passwords typed in: two of the seed, and the SHA-256 digest of the first
\* typed in as if it were a password
AdminPassword == "admin123"
AdminDigest == "240be518fabd2724ddb6f04eeb1da5967448d7e831c08c8fa822809f74c720a9"
Passwords == {AdminPassword, "password123", AdminDigest}

\* hashlib.sha256(password.encode()).hexdigest(), on the passwords above
hash_password(password) ==
    CASE password = "admin123" -> "240be518fabd2724ddb6f04eeb1da5967448d7e831c08c8fa822809f74c720a9"
      [] password = "password123" -> "ef92b778bafe771e89245b89ecbc08a44a4e166c06659911881f383d4473e94f"
      [] password = "240be518fabd2724ddb6f04eeb1da5967448d7e831c08c8fa822809f74c720a9"
                                  -> "da1a51f975cd750be255d21548eaae1dbaa96ffc997283a6a204f9213a8aca71"

\* UserCreate: department_id 0 stands for None
UserData == [name : {"Test User"}, email : Emails, password : Passwords,
             phone : {"123-456-7890"}, department_id : {1}]
NoUserData == [name |-> "", email |-> "", password |-> "", phone |-> "", department_id |-> 0]

\* seed_demo_data: the departments, and the admin registered and then promoted
SeedDepartments ==
    <<[name |-> "Engineering", description |-> "Software development and IT", is_active |-> TRUE],
      [name |-> "Marketing", description |-> "Marketing and communications", is_active |-> TRUE]>>
SeedUsers ==
    <<[name |-> "Admin User", email |-> AdminEmail, password_hash |-> hash_password(AdminPassword),
       phone |-> "555-0001", department_id |-> 1, role |-> "admin"]>>

\* app.storage.user before a login and after logout
NoStorage == [user_id |-> 0, user_name |-> "", user_email |-> "", user_role |-> ""]

\* no page requested yet
NoPage == [path |-> "", user_id |-> 0, rendered |-> FALSE]
\* ui.navigate.to(path): the browser is sent to the page
Navigate(path) == [path |-> path, user_id |-> 0, rendered |-> FALSE]
\* the page function ran to its end: content and handlers, which hold user_id
Render(path, user_id) == [path |-> path, user_id |-> user_id, rendered |-> TRUE]

InitAccounts ==
    /\ users = SeedUsers
    /\ departments = SeedDepartments
    /\ storage = NoStorage
    /\ reg = [p \in Procs |-> NoUserData]
    /\ typed = <<AdminPassword>>
    /\ page = NoPage

\* ---------------------------------------------------------------- Init
InitTables ==
    /\ dishes = [d \in DishIds |-> [price |-> SeedPrice(d), stock_quantity |-> SeedStock(d),
                                     is_available |-> TRUE]]
    /\ cart = {}
    /\ nextCartId = 1
    /\ orders = <<>>
    /\ items = <<>>
    /\ pc = [p \in Procs |-> "idle"]
    /\ loc = [p \in Procs |-> NoLoc]
    /\ ret = NoRet
    /\ pre = NoPre
    /\ seed = dishes
    /\ calls = [admin |-> 0, status |-> 0]

Init == InitTables /\ InitAccounts /\ serial = FALSE
SeqInit == InitTables /\ InitAccounts /\ serial = TRUE

\* ---------------------------------------------------------------- add_to_cart
\* line 212: the request is refused before the cart is looked at
AddRefused(dish, quantity) ==
    \/ ~dish.exists
    \/ ~dish.is_available
    \/ dish.stock_quantity < quantity

\* mutant of AddOverStock: only the requested quantity is compared
AddOverStock_IgnoresExisting(dish, existing_quantity, quantity) ==
    quantity > dish.stock_quantity

\* lines 222-223: the summed quantity may not exceed the stock read at 211
AddOverStock(dish, existing_quantity, quantity) ==
    existing_quantity + quantity > dish.stock_quantity

\* lines 209-213: session.get(Dish) and the first check
AddGetDish(p, u, d, q) ==
    /\ CanCall(p)
    /\ nextCartId + Cardinality(Adding) <= MaxCartId
    /\ LET dish == GetDish(dishes, d) IN
         IF AddRefused(dish, q)
         THEN Refuse(p, AddResult(u, d, q, FALSE, 0))
         ELSE /\ Continue(p, "add_find", [NoLoc EXCEPT !.user_id = u, !.dish_id = d,
                                                       !.quantity = q, !.dish = dish])
              /\ UNCHANGED db
    /\ UNCHANGED <<seed, calls, serial>>

\* lines 216-224: select ... .first() and the second check
AddFindExisting(p) ==
    /\ pc[p] = "add_find"
    /\ LET l == loc[p]
           rows == CartRows(cart, l.user_id, l.dish_id)
       IN \E e \in (IF rows = {} THEN {NoRow} ELSE rows) :
            IF e # NoRow /\ AddOverStock(l.dish, e.quantity, l.quantity)
            THEN Refuse(p, AddResult(l.user_id, l.dish_id, l.quantity, FALSE, 0))
            ELSE /\ Continue(p, "add_commit", [l EXCEPT !.existing_item = e])
                 /\ UNCHANGED db
    /\ UNCHANGED <<seed, calls, serial>>

\* lines 226-237: UPDATE of the row found, or INSERT of a new row; commit.
\* An UPDATE that matches no row (the row was deleted meanwhile) raises
\* StaleDataError and the request ends with nothing written.
AddCommit(p) ==
    /\ pc[p] = "add_commit"
    /\ LET l == loc[p]
           e == l.existing_item
       IN IF e # NoRow
          THEN IF \E r \in cart : r.id = e.id
               THEN /\ cart' = {IF r.id = e.id
                                THEN [r EXCEPT !.quantity = e.quantity + l.quantity]
                                ELSE r : r \in cart}
                    /\ UNCHANGED nextCartId
                    /\ Return(p, AddResult(l.user_id, l.dish_id, l.quantity, TRUE, e.id))
               ELSE /\ UNCHANGED <<cart, nextCartId>>
                    /\ Return(p, AddResult(l.user_id, l.dish_id, l.quantity, FALSE, 0))
          ELSE /\ cart' = cart \cup {[id |-> nextCartId, user_id |-> l.user_id,
                                      dish_id |-> l.dish_id, quantity |-> l.quantity]}
               /\ nextCartId' = nextCartId + 1
               /\ Return(p, AddResult(l.user_id, l.dish_id, l.quantity, TRUE, nextCartId))
    /\ UNCHANGED <<dishes, orders, items, seed, calls, serial>>

\* ---------------------------------------------------------------- clear_cart
\* lines 201-204: the rows of the user's cart
get_cart_items(tbl, u) == SortById(CartOf(tbl, u))

\* mutant of clear_cart: the delete has no where clause
clear_cart_Everyone(u) ==
    /\ CanCallAtomic
    /\ ~Ordering(u)
    /\ cart' = {}
    /\ ret' = Result("clear", u, TRUE, 0)
    /\ UNCHANGED <<dishes, nextCartId, orders, items, pc, loc, pre, seed, calls, serial>>

\* lines 240-249
clear_cart(u) ==
    /\ CanCallAtomic
    /\ ~Ordering(u)
    /\ cart' = cart \ CartOf(cart, u)
    /\ ret' = Result("clear", u, TRUE, 0)
    /\ UNCHANGED <<dishes, nextCartId, orders, items, pc, loc, pre, seed, calls, serial>>

\* ---------------------------------------------------------------- the cart page
\* models.py 212-213: CartItemUpdate, quantity: int = Field(ge=1)
CartItemUpdate(quantity) == quantity >= 1

\* the value of the quantity input of a cart row
QuantityInputs == 0..(MaxStock + 1)

\* the handler's call and what came of it
QuantityResult(op, u, cart_item_id, value, ok) ==
    [op |-> op, user_id |-> u, dish_id |-> 0, quantity |-> value, ok |-> ok,
     id |-> cart_item_id]

\* mutant of UpdateOverStock: any quantity is accepted
UpdateOverStock_Never(dish, quantity) == FALSE

\* CartService.update_cart_item, the stock ceiling: the new quantity may not
\* exceed the stock of the dish
UpdateOverStock(dish, quantity) == ~dish.exists \/ quantity > dish.stock_quantity

\* CartService.update_cart_item(user_id, cart_item_id, update_data): the cart
\* after the call and the row returned; None, and the cart as it was, when
\* the row is not one of the user's or the quantity is over the stock
update_cart_item(tbl, dish_tbl, u, cart_item_id, quantity) ==
    LET rows == {r \in tbl : r.id = cart_item_id /\ r.user_id = u} IN
    IF rows = {} THEN [cart |-> tbl, result |-> NoRow]
    ELSE LET cart_item == CHOOSE r \in rows : TRUE IN
         IF UpdateOverStock(GetDish(dish_tbl, cart_item.dish_id), quantity)
         THEN [cart |-> tbl, result |-> NoRow]
         ELSE [cart |-> {IF r = cart_item THEN [r EXCEPT !.quantity = quantity] ELSE r :
                         r \in tbl},
               result |-> [cart_item EXCEPT !.quantity = quantity]]

\* CartService.remove_from_cart(user_id, cart_item_id): the cart after the
\* call and whether a row was deleted
remove_from_cart(tbl, u, cart_item_id) ==
    [cart |-> {r \in tbl : ~(r.id = cart_item_id /\ r.user_id = u)},
     result |-> \E r \in tbl : r.id = cart_item_id /\ r.user_id = u]

\* user_dashboard.py lines 180-191: nothing is called for an empty or zero
\* input; the handler tells a result that is None from a row
update_quantity(u, cart_item_id, value) ==
    /\ CanCallAtomic
    /\ ~Ordering(u)
    /\ IF value > 0 /\ CartItemUpdate(value)
       THEN LET call == update_cart_item(cart, dishes, u, cart_item_id, value) IN
            /\ cart' = call.cart
            /\ ret' = QuantityResult("update_quantity", u, cart_item_id, value,
                                      call.result # NoRow)
       ELSE /\ UNCHANGED cart
            /\ ret' = QuantityResult("update_quantity", u, cart_item_id, value, FALSE)
    /\ UNCHANGED <<dishes, nextCartId, orders, items, pc, loc, pre, seed, calls, serial>>

\* user_dashboard.py lines 193-200
remove_item(u, cart_item_id) ==
    /\ CanCallAtomic
    /\ ~Ordering(u)
    /\ LET call == remove_from_cart(cart, u, cart_item_id) IN
         /\ cart' = call.cart
         /\ ret' = QuantityResult("remove_item", u, cart_item_id, 0, call.result)
    /\ UNCHANGED <<dishes, nextCartId, orders, items, pc, loc, pre, seed, calls, serial>>

\* ---------------------------------------------------------------- get_cart_total
\* mutant of CartLineTotal: the quantity is left out of the product
CartLineTotal_UnitOnly(dish, quantity) == IF dish.exists THEN dish.price ELSE 0

\* lines 259-261: session.get(Dish); a row whose dish is gone adds nothing
CartLineTotal(dish, quantity) == IF dish.exists THEN dish.price * quantity ELSE 0

\* lines 255-263: the loop over the rows of get_cart_items
RECURSIVE CartTotal(_, _)
CartTotal(tbl, cart_items) ==
    IF cart_items = <<>> THEN 0
    ELSE CartLineTotal(GetDish(tbl, Head(cart_items).dish_id), Head(cart_items).quantity)
           + CartTotal(tbl, Tail(cart_items))

TotalResult(u, total) ==
    [op |-> "total", user_id |-> u, dish_id |-> 0, quantity |-> 0, ok |-> TRUE, id |-> 0,
     total |-> total]

\* lines 252-263
get_cart_total(u) ==
    /\ CanCallAtomic
    /\ ret' = TotalResult(u, CartTotal(dishes, SortById(CartOf(cart, u))))
    /\ UNCHANGED <<db, pc, loc, pre, seed, calls, serial>>

\* ---------------------------------------------------------------- create_order_from_cart
\* mutant of LineRefused: the stock is not looked at again at checkout
LineRefused_NoStock(dish, quantity) ==
    \/ ~dish.exists
    \/ ~dish.is_available

\* lines 285-289: a cart line that stops the checkout
LineRefused(dish, quantity) ==
    \/ ~dish.exists
    \/ ~dish.is_available
    \/ dish.stock_quantity < quantity

\* mutant of Subtotal: the quantity is left out of the product
Subtotal_UnitOnly(price, quantity) == price

\* line 291: Decimal price times int quantity, exact in cents
Subtotal(price, quantity) == price * quantity

\* mutant of ItemData: the line total is stored as the unit price
ItemData_SubtotalAsUnit(d, dish, quantity) ==
    [dish_id |-> d, quantity |-> quantity, unit_price |-> dish.price * quantity,
     subtotal |-> dish.price * quantity]

\* lines 294-296
ItemData(d, dish, quantity) ==
    [dish_id |-> d, quantity |-> quantity, unit_price |-> dish.price,
     subtotal |-> Subtotal(dish.price, quantity)]

\* mutant of Decrement: one portion is taken whatever the quantity
Decrement_One(stock_quantity, quantity) == stock_quantity - 1

\* line 321: the stock written back for a purchased line
Decrement(stock_quantity, quantity) == stock_quantity - quantity

\* lines 272-277: select the user's cart rows
OrderSelectCart(p, u) ==
    /\ CanCall(p)
    /\ Len(orders) + Cardinality(Inserting) < MaxOrders
    /\ ~Ordering(u)
    /\ LET cart_items == SortById(CartOf(cart, u)) IN
         IF cart_items = <<>>
         THEN Refuse(p, Result("order", u, FALSE, 0))
         ELSE /\ Continue(p, "order_validate",
                          [NoLoc EXCEPT !.user_id = u, !.cart_items = cart_items, !.idx = 1])
              /\ UNCHANGED db
    /\ UNCHANGED <<seed, calls, serial>>

\* lines 283-296, one pass of the loop: session.get(Dish) answers from the
\* session when this request has loaded the dish already
OrderValidateLine(p) ==
    /\ pc[p] = "order_validate"
    /\ LET l == loc[p]
           cart_item == l.cart_items[l.idx]
           d == cart_item.dish_id
           dish == IF d \in DOMAIN l.session THEN l.session[d] ELSE GetDish(dishes, d)
       IN IF LineRefused(dish, cart_item.quantity)
          THEN Refuse(p, Result("order", l.user_id, FALSE, 0))
          ELSE LET data == ItemData(d, dish, cart_item.quantity)
                   l2 == [l EXCEPT !.session = [x \in DOMAIN l.session \cup {d} |->
                                                  IF x = d THEN dish ELSE l.session[x]],
                                   !.order_items_data = Append(@, data),
                                   !.total_amount = @ + data.subtotal,
                                   !.idx = @ + 1]
               IN /\ Continue(p, IF l.idx = Len(l.cart_items) THEN "order_insert"
                                                              ELSE "order_validate", l2)
                  /\ UNCHANGED db
    /\ UNCHANGED <<seed, calls, serial>>

\* lines 334-337: the orders of the user, the newest first
RECURSIVE OrdersNewestFirst(_, _, _)
OrdersNewestFirst(tbl, u, n) ==
    IF n = 0 THEN <<>>
    ELSE (IF tbl[n].user_id = u THEN <<[id |-> n, order |-> tbl[n]]>> ELSE <<>>)
         \o OrdersNewestFirst(tbl, u, n - 1)

get_user_orders(tbl, u) == OrdersNewestFirst(tbl, u, Len(tbl))

\* mutant of OrderInsertOrder: the order is booked on the first user
OrderInsertOrder_FirstUser(p) ==
    /\ pc[p] = "order_insert"
    /\ LET l == loc[p] IN
         /\ orders' = Append(orders, [user_id |-> 1,
                                      total_amount |-> l.total_amount,
                                      status |-> "pending"])
         /\ Continue(p, "order_stock", [l EXCEPT !.order_id = Len(orders) + 1,
                                                 !.session = EmptyMap, !.idx = 1])
    /\ UNCHANGED <<dishes, cart, nextCartId, items, seed, calls, serial>>

\* mutant of OrderInsertOrder: the order is born confirmed
OrderInsertOrder_Confirmed(p) ==
    /\ pc[p] = "order_insert"
    /\ LET l == loc[p] IN
         /\ orders' = Append(orders, [user_id |-> l.user_id,
                                      total_amount |-> l.total_amount,
                                      status |-> "confirmed"])
         /\ Continue(p, "order_stock", [l EXCEPT !.order_id = Len(orders) + 1,
                                                 !.session = EmptyMap, !.idx = 1])
    /\ UNCHANGED <<dishes, cart, nextCartId, items, seed, calls, serial>>

\* lines 298-309: INSERT the order row and commit; the commit expires every
\* object the session holds
OrderInsertOrder(p) ==
    /\ pc[p] = "order_insert"
    /\ LET l == loc[p] IN
         /\ orders' = Append(orders, [user_id |-> l.user_id,
                                      total_amount |-> l.total_amount,
                                      status |-> "pending"])
         /\ Continue(p, "order_stock", [l EXCEPT !.order_id = Len(orders) + 1,
                                                 !.session = EmptyMap, !.idx = 1])
    /\ UNCHANGED <<dishes, cart, nextCartId, items, seed, calls, serial>>

\* lines 313-322, one pass of the loop: the expired dish is read again and
\* its stock lowered in the session
OrderUpdateStock(p) ==
    /\ pc[p] = "order_stock"
    /\ LET l == loc[p]
           item_data == l.order_items_data[l.idx]
           d == item_data.dish_id
           dish == IF d \in DOMAIN l.session THEN l.session[d] ELSE GetDish(dishes, d)
           dish2 == [dish EXCEPT !.stock_quantity = Decrement(@, item_data.quantity)]
           l2 == [l EXCEPT !.session = [x \in DOMAIN l.session \cup {d} |->
                                          IF x = d THEN dish2 ELSE l.session[x]],
                           !.idx = @ + 1]
       IN Continue(p, IF l.idx = Len(l.order_items_data) THEN "order_commit"
                                                         ELSE "order_stock", l2)
    /\ UNCHANGED <<db, seed, calls, serial>>

\* lines 314-315, 325-331: INSERT the order items, UPDATE the stock of the
\* dishes changed in the session, DELETE the cart rows read at 274; commit
OrderCommit(p) ==
    /\ pc[p] = "order_commit"
    /\ LET l == loc[p] IN
         /\ items' = items \o [i \in 1..Len(l.order_items_data) |->
                                 [order_id |-> l.order_id,
                                  dish_id |-> l.order_items_data[i].dish_id,
                                  quantity |-> l.order_items_data[i].quantity,
                                  unit_price |-> l.order_items_data[i].unit_price,
                                  subtotal |-> l.order_items_data[i].subtotal]]
         /\ dishes' = [d \in DOMAIN dishes |->
                         IF d \in DOMAIN l.session
                         THEN [dishes[d] EXCEPT !.stock_quantity = l.session[d].stock_quantity]
                         ELSE dishes[d]]
         /\ cart' = {r \in cart : \A i \in 1..Len(l.cart_items) : l.cart_items[i].id # r.id}
         /\ Return(p, Result("order", l.user_id, TRUE, l.order_id))
    /\ UNCHANGED <<nextCartId, orders, seed, calls, serial>>

\* ---------------------------------------------------------------- admin
DishFields == {"price", "stock_quantity", "is_available"}

\* line 173: dish_data.model_dump(exclude_unset=True), the supplied fields only
UpdateData(fields, values) == [f \in fields |-> values[f]]

\* the call (row id and supplied fields) and what came of it: the row, None,
\* or the IntegrityError of the commit
UpdateResult(op, row_id, ok, update_data, raised) ==
    [op |-> op, user_id |-> 0, dish_id |-> 0, quantity |-> 0, ok |-> ok,
     id |-> IF ok THEN row_id ELSE 0, row_id |-> row_id, update_data |-> update_data,
     raised |-> raised]

\* mutant of ApplyDishUpdate: a field that is not supplied falls back to its default
ApplyDishUpdate_Defaults(dish, fields, price, stock_quantity, is_available) ==
    [price |-> IF "price" \in fields THEN price ELSE dish.price,
     stock_quantity |-> IF "stock_quantity" \in fields THEN stock_quantity ELSE 0,
     is_available |-> IF "is_available" \in fields THEN is_available ELSE TRUE]

\* lines 174-176: setattr for every field of model_dump(exclude_unset=True)
ApplyDishUpdate(dish, fields, price, stock_quantity, is_available) ==
    [price |-> IF "price" \in fields THEN price ELSE dish.price,
     stock_quantity |-> IF "stock_quantity" \in fields THEN stock_quantity
                                                      ELSE dish.stock_quantity,
     is_available |-> IF "is_available" \in fields THEN is_available
                                                  ELSE dish.is_available]

\* lines 167-181
update_dish(d, fields, price, stock_quantity, is_available) ==
    /\ CanCallAtomic
    /\ calls.admin < MaxAdminCalls
    /\ calls' = [calls EXCEPT !.admin = @ + 1]
    /\ IF d \in DOMAIN dishes
       THEN /\ dishes' = [dishes EXCEPT ![d] =
                            ApplyDishUpdate(@, fields, price, stock_quantity, is_available)]
            /\ ret' = UpdateResult("update_dish", d, TRUE,
                                   UpdateData(fields, [price |-> price,
                                                       stock_quantity |-> stock_quantity,
                                                       is_available |-> is_available]),
                                   FALSE)
       ELSE /\ UNCHANGED dishes
            /\ ret' = UpdateResult("update_dish", d, FALSE,
                                   UpdateData(fields, [price |-> price,
                                                       stock_quantity |-> stock_quantity,
                                                       is_available |-> is_available]),
                                   FALSE)
    /\ UNCHANGED <<cart, nextCartId, orders, items, pc, loc, pre, seed, serial>>

\* lines 139-142: select(Dish).where(Dish.is_available)
get_available_dishes(tbl) == {[id |-> d, dish |-> tbl[d]] : d \in {x \in DOMAIN tbl : tbl[x].is_available}}

\* lines 145-148: select(Dish)
get_all_dishes(tbl) == {[id |-> d, dish |-> tbl[d]] : d \in DOMAIN tbl}

\* lines 151-154: session.get(Dish, dish_id)
get_dish_by_id(tbl, d) == GetDish(tbl, d)

\* mutant of delete_dish: the row is deleted from the table
delete_dish_RemovesRow(d) ==
    /\ CanCallAtomic
    /\ calls.admin < MaxAdminCalls
    /\ calls' = [calls EXCEPT !.admin = @ + 1]
    /\ IF d \in DOMAIN dishes
       THEN /\ dishes' = [x \in DOMAIN dishes \ {d} |-> dishes[x]]
            /\ ret' = Result("delete_dish", 0, TRUE, d)
       ELSE /\ UNCHANGED dishes
            /\ ret' = Result("delete_dish", 0, FALSE, 0)
    /\ UNCHANGED <<cart, nextCartId, orders, items, pc, loc, pre, seed, serial>>

\* lines 184-194
delete_dish(d) ==
    /\ CanCallAtomic
    /\ calls.admin < MaxAdminCalls
    /\ calls' = [calls EXCEPT !.admin = @ + 1]
    /\ IF d \in DOMAIN dishes
       THEN /\ dishes' = [dishes EXCEPT ![d].is_available = FALSE]
            /\ ret' = Result("delete_dish", 0, TRUE, d)
       ELSE /\ UNCHANGED dishes
            /\ ret' = Result("delete_dish", 0, FALSE, 0)
    /\ UNCHANGED <<cart, nextCartId, orders, items, pc, loc, pre, seed, serial>>

\* the call, the status the order was read with at line 355, and what the
\* call returned: the order, or None
StatusResult(o, status, ok, was) ==
    [op |-> "update_order_status", user_id |-> 0, dish_id |-> 0, quantity |-> 0, ok |-> ok,
     id |-> IF ok THEN o ELSE 0, order_id |-> o, status |-> status, was |-> was]

\* mutant of SetStatus: the total is zeroed when an order is cancelled
SetStatus_VoidsTotal(order, status) ==
    [order EXCEPT !.status = status,
                  !.total_amount = IF status = "cancelled" THEN 0 ELSE @]

\* line 359: order.status = status
SetStatus(order, status) == [order EXCEPT !.status = status]

\* lines 352-363
update_order_status(o, status) ==
    /\ CanCallAtomic
    /\ calls.status < MaxStatusCalls
    /\ calls' = [calls EXCEPT !.status = @ + 1]
    /\ IF o \in DOMAIN orders
       THEN /\ orders' = [orders EXCEPT ![o] = SetStatus(@, status)]
            /\ ret' = StatusResult(o, status, TRUE, orders[o].status)
       ELSE /\ UNCHANGED orders
            /\ ret' = StatusResult(o, status, FALSE, "none")
    /\ UNCHANGED <<dishes, cart, nextCartId, items, pc, loc, pre, seed, serial>>

\* ---------------------------------------------------------------- departments
DepartmentFields == {"name", "description", "is_active"}

\* DepartmentUpdate inputs: a new name, the name of the second seeded
\* department, a new description
NameUpdates == {"Catering", "Marketing"}
DescriptionUpdates == {"Kitchen"}
DepartmentIdInputs == 1..(Len(SeedDepartments) + 1)

\* lines 112-114: setattr for every field of model_dump(exclude_unset=True)
ApplyDepartmentUpdate(department, fields, name, description, is_active) ==
    [name |-> IF "name" \in fields THEN name ELSE department.name,
     description |-> IF "description" \in fields THEN description ELSE department.description,
     is_active |-> IF "is_active" \in fields THEN is_active ELSE department.is_active]

\* mutant of NameTaken: the name column has no unique index
NameTaken_NoConstraint(tbl, dept_id, name) == FALSE

\* models.py:33, unique=True: the INSERT or UPDATE to a name another row holds fails
NameTaken(tbl, dept_id, name) == \E i \in DOMAIN tbl : i # dept_id /\ tbl[i].name = name

\* Python's None, NULL in a text column
None == "None"

\* models.py:33, name: str, a column that is NOT NULL
NotNull(department) == department.name # None

\* lines 105-119
update_department(dept_id, fields, name, description, is_active) ==
    /\ CanCallAtomic
    /\ LET update_data == UpdateData(fields, [name |-> name, description |-> description,
                                              is_active |-> is_active])
       IN IF dept_id \notin DOMAIN departments
          THEN /\ UNCHANGED departments
               /\ ret' = UpdateResult("update_department", dept_id, FALSE, update_data, FALSE)
          ELSE LET department == ApplyDepartmentUpdate(departments[dept_id], fields, name,
                                                       description, is_active)
               IN IF ~NotNull(department) \/ NameTaken(departments, dept_id, department.name)
                  THEN /\ UNCHANGED departments
                       /\ ret' = UpdateResult("update_department", dept_id, FALSE,
                                              update_data, TRUE)
                  ELSE /\ departments' = [departments EXCEPT ![dept_id] = department]
                       /\ ret' = UpdateResult("update_department", dept_id, TRUE,
                                              update_data, FALSE)
    /\ UNCHANGED <<users, storage, reg, typed, page>>
    /\ UNCHANGED shop

\* DepartmentCreate inputs: the names above and the name of the first seeded
\* department
DepartmentData == [name : NameUpdates \cup {"Engineering"}, description : DescriptionUpdates]

\* the call and what it returned: the new row, or None
CreateResult(dept_data, ok, id, raised) ==
    [op |-> "create_department", user_id |-> 0, dish_id |-> 0, quantity |-> 0, ok |-> ok,
     id |-> id, name |-> dept_data.name, description |-> dept_data.description,
     raised |-> raised]

\* line 93: select(Department).where(Department.name == dept_data.name).first()
ExistingDepartment(tbl, name) == \E i \in DOMAIN tbl : tbl[i].name = name

\* lines 89-102; is_active takes its default (models.py:35)
create_department(dept_data) ==
    /\ CanCallAtomic
    /\ IF ExistingDepartment(departments, dept_data.name)
       THEN /\ UNCHANGED departments
            /\ ret' = CreateResult(dept_data, FALSE, 0, FALSE)
       ELSE /\ Len(departments) < MaxDepartments
            /\ IF NameTaken(departments, 0, dept_data.name)
               THEN /\ UNCHANGED departments
                    /\ ret' = CreateResult(dept_data, FALSE, 0, TRUE)
               ELSE /\ departments' = Append(departments,
                                             [name |-> dept_data.name,
                                              description |-> dept_data.description,
                                              is_active |-> TRUE])
                    /\ ret' = CreateResult(dept_data, TRUE, Len(departments) + 1, FALSE)
    /\ UNCHANGED <<users, storage, reg, typed, page>>
    /\ UNCHANGED shop

\* lines 83-86: select(Department).where(Department.is_active)
get_all_departments(tbl) ==
    {[id |-> i, department |-> tbl[i]] : i \in {x \in DOMAIN tbl : tbl[x].is_active}}

\* mutant of delete_department: the row is deleted from the table
delete_department_RemovesRow(dept_id) ==
    /\ CanCallAtomic
    /\ IF dept_id \in DOMAIN departments
       THEN /\ departments' = SubSeq(departments, 1, dept_id - 1)
                               \o SubSeq(departments, dept_id + 1, Len(departments))
            /\ ret' = Result("delete_department", 0, TRUE, dept_id)
       ELSE /\ UNCHANGED departments
            /\ ret' = Result("delete_department", 0, FALSE, 0)
    /\ UNCHANGED <<users, storage, reg, typed, page>>
    /\ UNCHANGED shop

\* lines 122-132
delete_department(dept_id) ==
    /\ CanCallAtomic
    /\ IF dept_id \in DOMAIN departments
       THEN /\ departments' = [departments EXCEPT ![dept_id].is_active = FALSE]
            /\ ret' = Result("delete_department", 0, TRUE, dept_id)
       ELSE /\ UNCHANGED departments
            /\ ret' = Result("delete_department", 0, FALSE, 0)
    /\ UNCHANGED <<users, storage, reg, typed, page>>
    /\ UNCHANGED shop

\* ---------------------------------------------------------------- edit dialogs
\* admin_dashboard.py lines 413-416: the dialog shows "" for no description
Shown(description) == IF description = None THEN "" ELSE description

\* admin_dashboard.py lines 427-442: DepartmentUpdate is given both fields, a
\* field whose input equals what the dialog showed as None
edit_department(dept_id, name_input, description_input) ==
    /\ dept_id \in DOMAIN departments
    /\ update_department(dept_id, {"name", "description"},
                         IF name_input # departments[dept_id].name THEN name_input ELSE None,
                         IF description_input # Shown(departments[dept_id].description)
                         THEN description_input ELSE None,
                         TRUE)

\* the inputs of the Edit Dish dialog that stand for columns the model does
\* not keep, and the columns of Dish that are NOT NULL (models.py 69-74)
DishTextInputs == {"name", "category", "description", "image_url"}
DishNotNull == {"name", "category", "price", "description", "stock_quantity"}

\* admin_dashboard.py lines 297-304: the fields that get a value; every other
\* field of DishUpdate is given None
ChangedDishFields(dish, edited, price_input, stock_input) ==
    edited \cup (IF price_input # dish.price THEN {"price"} ELSE {})
           \cup (IF stock_input # dish.stock_quantity THEN {"stock_quantity"} ELSE {})

\* the click and what came of it: the row, or the IntegrityError of the commit
EditResult(row_id, ok, raised, edited, price_input, stock_input) ==
    [op |-> "edit_dish", user_id |-> 0, dish_id |-> 0, quantity |-> 0, ok |-> ok,
     id |-> IF ok THEN row_id ELSE 0, row_id |-> row_id, raised |-> raised,
     edited |-> edited, price_input |-> price_input, stock_input |-> stock_input]

\* admin_dashboard.py lines 293-312 with DishService.update_dish: all six
\* fields are set in DishUpdate, so setattr writes the None of every input
\* left as it was, and the commit fails on a column that is NOT NULL
edit_dish(d, edited, price_input, stock_input) ==
    /\ CanCallAtomic
    /\ d \in DOMAIN dishes
    /\ LET changed == ChangedDishFields(dishes[d], edited, price_input, stock_input) IN
         IF DishNotNull \subseteq changed
         THEN /\ dishes' = [dishes EXCEPT ![d] =
                              ApplyDishUpdate(@, {"price", "stock_quantity"}, price_input,
                                              stock_input, @.is_available)]
              /\ ret' = EditResult(d, TRUE, FALSE, edited, price_input, stock_input)
         ELSE /\ UNCHANGED dishes
              /\ ret' = EditResult(d, FALSE, TRUE, edited, price_input, stock_input)
    /\ UNCHANGED <<cart, nextCartId, orders, items, pc, loc, pre, seed, calls, serial>>

\* the Edit Dish and Edit Department dialogs
EditNext ==
    \/ \E d \in DishIds, edited \in SUBSET DishTextInputs :
          \E price_input \in PriceUpdates \cup {dishes[d].price},
             stock_input \in StockUpdates \cup {dishes[d].stock_quantity} :
             edit_dish(d, edited, price_input, stock_input) /\ UNCHANGED acct
    \/ \E dept_id \in DOMAIN departments :
          \E name_input \in NameUpdates \cup {departments[dept_id].name},
             description_input \in DescriptionUpdates
                                   \cup {Shown(departments[dept_id].description)} :
             edit_department(dept_id, name_input, description_input)

\* the admin pages: catalogue and departments
AdminNext ==
    \/ \E d \in DishIdInputs, fields \in SUBSET DishFields, price \in PriceUpdates,
          stock_quantity \in StockUpdates, is_available \in BOOLEAN :
          update_dish(d, fields, price, stock_quantity, is_available) /\ UNCHANGED acct
    \/ \E dept_id \in DepartmentIdInputs, fields \in SUBSET DepartmentFields,
          name \in NameUpdates, description \in DescriptionUpdates, is_active \in BOOLEAN :
          update_department(dept_id, fields, name, description, is_active)

\* the departments page
DepartmentNext ==
    \/ \E dept_data \in DepartmentData : create_department(dept_data)
    \/ \E dept_id \in 1..MaxDepartments, fields \in SUBSET DepartmentFields,
          name \in NameUpdates, description \in DescriptionUpdates, is_active \in BOOLEAN :
          update_department(dept_id, fields, name, description, is_active)
    \/ \E dept_id \in 1..MaxDepartments : delete_department(dept_id)

\* ---------------------------------------------------------------- register_user
\* select(User).where(User.email == email): the match is exact, letter case included
FindByEmail(tbl, email) == {i \in DOMAIN tbl : tbl[i].email = email}

\* .first(): the row found, 0 for None
FirstByEmail(tbl, email) ==
    IF FindByEmail(tbl, email) = {} THEN 0
    ELSE CHOOSE i \in FindByEmail(tbl, email) : \A j \in FindByEmail(tbl, email) : i <= j

\* mutant of EmailTaken: the users table accepts a second row with the e-mail
EmailTaken_NoConstraint(tbl, email) == FALSE

\* models.py:49, unique=True: the INSERT of a second row with the e-mail fails
EmailTaken(tbl, email) == FindByEmail(tbl, email) # {}

\* mutant of NewUser: the password is stored as typed
NewUser_Plaintext(user_data) ==
    [name |-> user_data.name, email |-> user_data.email,
     password_hash |-> user_data.password,
     phone |-> user_data.phone, department_id |-> user_data.department_id,
     role |-> "regular"]

\* mutant of NewUser: accounts of the admin's e-mail domain are admins
NewUser_RoleByEmail(user_data) ==
    [name |-> user_data.name, email |-> user_data.email,
     password_hash |-> hash_password(user_data.password),
     phone |-> user_data.phone, department_id |-> user_data.department_id,
     role |-> IF user_data.email = "Test@example.com" THEN "admin" ELSE "regular"]

\* lines 48-55
NewUser(user_data) ==
    [name |-> user_data.name, email |-> user_data.email,
     password_hash |-> hash_password(user_data.password),
     phone |-> user_data.phone, department_id |-> user_data.department_id,
     role |-> "regular"]

\* the call and what came of it: the user, None, or the IntegrityError of the commit
RegisterResult(user_data, ok, id, raised) ==
    [op |-> "register", user_id |-> 0, dish_id |-> 0, quantity |-> 0, ok |-> ok, id |-> id,
     email |-> user_data.email, raised |-> raised]

Registering == {q \in Procs : reg[q] # NoUserData}

\* lines 40-45: the lookup of the e-mail
RegisterSelect(p, user_data) ==
    /\ reg[p] = NoUserData
    /\ \A q \in Procs : q < p => reg[q] # NoUserData
    /\ Len(users) + Cardinality(Registering) < Len(SeedUsers) + MaxRegistered
    /\ IF FirstByEmail(users, user_data.email) # 0
       THEN /\ ret' = RegisterResult(user_data, FALSE, 0, FALSE)
            /\ UNCHANGED reg
       ELSE /\ ret' = NoRet
            /\ reg' = [reg EXCEPT ![p] = user_data]
    /\ UNCHANGED <<users, departments, storage, typed, page>>
    /\ UNCHANGED shop

\* lines 57-60: INSERT and commit
RegisterCommit(p) ==
    /\ reg[p] # NoUserData
    /\ IF EmailTaken(users, reg[p].email)
       THEN /\ ret' = RegisterResult(reg[p], FALSE, 0, TRUE)
            /\ UNCHANGED <<users, typed>>
       ELSE /\ users' = Append(users, NewUser(reg[p]))
            /\ typed' = Append(typed, reg[p].password)
            /\ ret' = RegisterResult(reg[p], TRUE, Len(users) + 1, FALSE)
    /\ reg' = [reg EXCEPT ![p] = NoUserData]
    /\ UNCHANGED <<departments, storage, page>>
    /\ UNCHANGED shop

\* ---------------------------------------------------------------- authenticate_user
\* mutant of Authenticate: the stored value is compared with the password as typed
Authenticate_Plain(tbl, email, password) ==
    LET u == FirstByEmail(tbl, email)
    IN IF u # 0 /\ tbl[u].password_hash = password THEN u ELSE 0

\* lines 66-70: the user found, 0 for None
Authenticate(tbl, email, password) ==
    LET u == FirstByEmail(tbl, email)
    IN IF u # 0 /\ tbl[u].password_hash = hash_password(password) THEN u ELSE 0

AuthResult(email, password, id) ==
    [op |-> "authenticate", user_id |-> 0, dish_id |-> 0, quantity |-> 0, ok |-> id # 0,
     id |-> id, email |-> email, password |-> password]

\* lines 63-70
authenticate_user(email, password) ==
    /\ ret' = AuthResult(email, password, Authenticate(users, email, password))
    /\ UNCHANGED acct
    /\ UNCHANGED shop

\* ---------------------------------------------------------------- auth.py
\* mutant of LoginFailure: the notification tells an unknown e-mail from a wrong password
LoginFailure_Tells(tbl, email) ==
    IF FindByEmail(tbl, email) = {} THEN "Unknown email" ELSE "Wrong password"

\* auth.py line 64: ui.notify("Invalid email or password")
LoginFailure(tbl, email) == "Invalid email or password"

LoginResult(email, password, ok, id, message, navigate) ==
    [op |-> "login", user_id |-> 0, dish_id |-> 0, quantity |-> 0, ok |-> ok, id |-> id,
     email |-> email, password |-> password, message |-> message, navigate |-> navigate]

\* auth.py lines 40-64
handle_login(email, password) ==
    /\ IF email = "" \/ password = ""
       THEN /\ ret' = LoginResult(email, password, FALSE, 0, "Please fill in all fields", "")
            /\ UNCHANGED storage
       ELSE LET user == Authenticate(users, email, password) IN
            IF user # 0
            THEN /\ storage' = [user_id |-> user, user_name |-> users[user].name,
                                user_email |-> users[user].email,
                                user_role |-> users[user].role]
                 /\ ret' = LoginResult(email, password, TRUE, user, "Welcome",
                                       IF users[user].role = "admin" THEN "/admin"
                                                                     ELSE "/dashboard")
            ELSE /\ ret' = LoginResult(email, password, FALSE, 0, LoginFailure(users, email), "")
                 /\ UNCHANGED storage
    /\ UNCHANGED <<users, departments, reg, typed, page>>
    /\ UNCHANGED shop

\* auth.py lines 155-162: app.storage.user is the storage of the browser, and
\* the tab that requested /logout is the one sent to /login; here tells
\* whether that is the tab whose page the model follows
logout(here) ==
    /\ storage # NoStorage
    /\ storage' = NoStorage
    /\ page' = IF here THEN Navigate("/login") ELSE page
    /\ ret' = [NoRet EXCEPT !.op = "logout", !.ok = TRUE]
    /\ UNCHANGED <<users, departments, reg, typed>>
    /\ UNCHANGED shop

\* ---------------------------------------------------------------- pages
UserPages == {"/dashboard", "/cart", "/orders", "/profile"}
AdminPages == {"/admin", "/admin/dishes", "/admin/departments", "/admin/reports"}

\* the page requested and what the page function did: content, or
\* ui.navigate.to
PageResult(path, user_id, rendered, navigate) ==
    [op |-> "page", user_id |-> user_id, dish_id |-> 0, quantity |-> 0, ok |-> rendered,
     id |-> 0, path |-> path, navigate |-> navigate]

\* auth.py lines 11-18: a browser that is logged in is sent on
login_page ==
    /\ CanCallAtomic
    /\ IF storage.user_id # 0
       THEN /\ page' = Navigate("/dashboard")
            /\ ret' = PageResult("/login", 0, FALSE, "/dashboard")
       ELSE /\ page' = Render("/login", 0)
            /\ ret' = PageResult("/login", 0, TRUE, "")
    /\ UNCHANGED <<users, departments, storage, reg, typed>>
    /\ UNCHANGED shop

\* user_dashboard.py lines 14-21: "if not user_id"
check_auth(st) == st.user_id # 0

\* user_dashboard.py lines 35-40, 115-120, 264-269, 333-338
user_page(path) ==
    /\ CanCallAtomic
    /\ IF check_auth(storage)
       THEN /\ page' = Render(path, storage.user_id)
            /\ ret' = PageResult(path, storage.user_id, TRUE, "")
       ELSE /\ page' = Navigate("/login")
            /\ ret' = PageResult(path, 0, FALSE, "/login")
    /\ UNCHANGED <<users, departments, storage, reg, typed>>
    /\ UNCHANGED shop

\* admin_dashboard.py lines 12-21
check_admin_auth(st) == ~(st.user_id = 0 \/ st.user_role # "admin")

\* admin_dashboard.py lines 36-39, 143-146, 331-334, 459-462
admin_page(path) ==
    /\ CanCallAtomic
    /\ IF check_admin_auth(storage)
       THEN /\ page' = Render(path, 0)
            /\ ret' = PageResult(path, 0, TRUE, "")
       ELSE /\ page' = Navigate("/login")
            /\ ret' = PageResult(path, 0, FALSE, "/login")
    /\ UNCHANGED <<users, departments, storage, reg, typed>>
    /\ UNCHANGED shop

\* what one browser types and clicks: an account, the credentials of the
\* admin and of that account, one dish, one portion
SessionUserData == {ud \in UserData : ud.email = "test@example.com" /\ ud.password = "password123"}
SessionEmails == {AdminEmail, "test@example.com"}
SessionPasswords == {AdminPassword, "password123"}

\* one browser and the tab the model follows: every page may be requested at
\* any time, a handler runs on the page that holds it, one request is served
\* at a time; the browser may log in and out in another tab (here = FALSE)
SessionNext ==
    \/ login_page
    \/ \E path \in UserPages : user_page(path)
    \/ \E path \in AdminPages : admin_page(path)
    \/ \E email \in SessionEmails, password \in SessionPasswords, here \in BOOLEAN :
          /\ CanCallAtomic
          /\ here => page = Render("/login", 0)
          /\ handle_login(email, password)
    \/ \E here \in BOOLEAN : CanCallAtomic /\ logout(here)
    \/ \E user_data \in SessionUserData : CanCallAtomic /\ RegisterSelect(1, user_data)
    \/ RegisterCommit(1)
    \/ \E p \in Procs :
          /\ page.rendered /\ page.path = "/dashboard"
          /\ AddGetDish(p, page.user_id, 1, 1) /\ UNCHANGED acct
    \/ \E p \in Procs : AddFindExisting(p) /\ UNCHANGED acct
    \/ \E p \in Procs : AddCommit(p) /\ UNCHANGED acct
    \/ \E cart_item_id \in 1..MaxCartId :
          /\ page.rendered /\ page.path = "/cart"
          /\ remove_item(page.user_id, cart_item_id) /\ UNCHANGED acct
    \/ \E p \in Procs :
          /\ page.rendered /\ page.path = "/cart"
          /\ OrderSelectCart(p, page.user_id) /\ UNCHANGED acct
    \/ \E p \in Procs : OrderValidateLine(p) /\ UNCHANGED acct
    \/ \E p \in Procs : OrderInsertOrder(p) /\ UNCHANGED acct
    \/ \E p \in Procs : OrderUpdateStock(p) /\ UNCHANGED acct
    \/ \E p \in Procs : OrderCommit(p) /\ UNCHANGED acct
    \/ \E o \in DOMAIN orders :
          /\ page = Render("/admin", 0)
          /\ update_order_status(o, "confirmed") /\ UNCHANGED acct
    \/ \E d \in DishIds :
          /\ page = Render("/admin/dishes", 0)
          /\ update_dish(d, {"is_available"}, dishes[d].price, dishes[d].stock_quantity,
                         ~dishes[d].is_available) /\ UNCHANGED acct
    \/ \E dept_id \in DOMAIN departments :
          /\ page = Render("/admin/departments", 0)
          /\ delete_department(dept_id)

AcctNext ==
    \/ \E p \in Procs, user_data \in UserData : RegisterSelect(p, user_data)
    \/ \E p \in Procs : RegisterCommit(p)
    \/ \E email \in Emails, password \in Passwords : authenticate_user(email, password)
    \/ \E email \in Emails \cup {""}, password \in Passwords \cup {""} : handle_login(email, password)
    \/ logout(FALSE)

Next ==
    \/ \E p \in Procs, u \in Users, d \in DishIdInputs, q \in 1..MaxQty :
          AddGetDish(p, u, d, q) /\ UNCHANGED acct
    \/ \E p \in Procs : AddFindExisting(p) /\ UNCHANGED acct
    \/ \E p \in Procs : AddCommit(p) /\ UNCHANGED acct
    \/ \E u \in Users : clear_cart(u) /\ UNCHANGED acct
    \/ \E p \in Procs, u \in Users : OrderSelectCart(p, u) /\ UNCHANGED acct
    \/ \E p \in Procs : OrderValidateLine(p) /\ UNCHANGED acct
    \/ \E p \in Procs : OrderInsertOrder(p) /\ UNCHANGED acct
    \/ \E p \in Procs : OrderUpdateStock(p) /\ UNCHANGED acct
    \/ \E p \in Procs : OrderCommit(p) /\ UNCHANGED acct
    \/ \E d \in DishIdInputs, fields \in SUBSET DishFields, price \in PriceUpdates,
          stock_quantity \in StockUpdates, is_available \in BOOLEAN :
          update_dish(d, fields, price, stock_quantity, is_available) /\ UNCHANGED acct
    \/ \E d \in DishIdInputs : delete_dish(d) /\ UNCHANGED acct

\* requests of the order desk as well, one request at a time
SeqNext ==
    \/ Next
    \/ \E o \in 1..(Len(orders) + 1), status \in OrderStatus :
          update_order_status(o, status) /\ UNCHANGED acct
    \/ \E u \in Users : get_cart_total(u) /\ UNCHANGED acct

Spec == Init /\ [][Next]_vars
SeqSpec == SeqInit /\ [][SeqNext]_vars
\* the shop while the admin withdraws dishes and departments, one request at
\* a time
CatalogueNext ==
    \/ \E p \in Procs, u \in Users, d \in DishIdInputs, q \in 1..MaxQty :
          AddGetDish(p, u, d, q) /\ UNCHANGED acct
    \/ \E p \in Procs : AddFindExisting(p) /\ UNCHANGED acct
    \/ \E p \in Procs : AddCommit(p) /\ UNCHANGED acct
    \/ \E p \in Procs, u \in Users : OrderSelectCart(p, u) /\ UNCHANGED acct
    \/ \E p \in Procs : OrderValidateLine(p) /\ UNCHANGED acct
    \/ \E p \in Procs : OrderInsertOrder(p) /\ UNCHANGED acct
    \/ \E p \in Procs : OrderUpdateStock(p) /\ UNCHANGED acct
    \/ \E p \in Procs : OrderCommit(p) /\ UNCHANGED acct
    \/ \E d \in DishIdInputs : delete_dish(d) /\ UNCHANGED acct
    \/ \E dept_id \in DepartmentIdInputs : delete_department(dept_id)

CatalogueSpec == SeqInit /\ [][CatalogueNext]_vars
\* the admin's department requests, one request at a time
DepartmentSpec == SeqInit /\ [][DepartmentNext]_vars
\* the dashboard and the cart page of the users, one request at a time
CartNext ==
    \/ \E p \in Procs, u \in Users, d \in DishIdInputs, q \in 1..MaxQty :
          AddGetDish(p, u, d, q) /\ UNCHANGED acct
    \/ \E p \in Procs : AddFindExisting(p) /\ UNCHANGED acct
    \/ \E p \in Procs : AddCommit(p) /\ UNCHANGED acct
    \/ \E u \in Users, cart_item_id \in 1..MaxCartId, value \in QuantityInputs :
          update_quantity(u, cart_item_id, value) /\ UNCHANGED acct
    \/ \E u \in Users, cart_item_id \in 1..MaxCartId :
          remove_item(u, cart_item_id) /\ UNCHANGED acct
    \/ \E p \in Procs, u \in Users : OrderSelectCart(p, u) /\ UNCHANGED acct
    \/ \E p \in Procs : OrderValidateLine(p) /\ UNCHANGED acct
    \/ \E p \in Procs : OrderInsertOrder(p) /\ UNCHANGED acct
    \/ \E p \in Procs : OrderUpdateStock(p) /\ UNCHANGED acct
    \/ \E p \in Procs : OrderCommit(p) /\ UNCHANGED acct

CartSpec == SeqInit /\ [][CartNext]_vars
\* every service that inserts, soft-deletes or deletes rows, one request at
\* a time: the cart and the orders of the first user, the registration of
\* users with one password, the admin's deletions and new departments
ServiceNext ==
    \/ \E p \in Procs, d \in DishIds, q \in 1..MaxQty :
          AddGetDish(p, 1, d, q) /\ UNCHANGED acct
    \/ \E p \in Procs : AddFindExisting(p) /\ UNCHANGED acct
    \/ \E p \in Procs : AddCommit(p) /\ UNCHANGED acct
    \/ clear_cart(1) /\ UNCHANGED acct
    \/ \E cart_item_id \in 1..MaxCartId : remove_item(1, cart_item_id) /\ UNCHANGED acct
    \/ \E p \in Procs : OrderSelectCart(p, 1) /\ UNCHANGED acct
    \/ \E p \in Procs : OrderValidateLine(p) /\ UNCHANGED acct
    \/ \E p \in Procs : OrderInsertOrder(p) /\ UNCHANGED acct
    \/ \E p \in Procs : OrderUpdateStock(p) /\ UNCHANGED acct
    \/ \E p \in Procs : OrderCommit(p) /\ UNCHANGED acct
    \/ \E d \in DishIds : delete_dish(d) /\ UNCHANGED acct
    \/ \E dept_id \in DOMAIN departments : delete_department(dept_id)
    \/ \E dept_data \in DepartmentData : create_department(dept_data)
    \/ \E user_data \in {ud \in UserData : ud.password = "password123"} :
          RegisterSelect(1, user_data)
    \/ RegisterCommit(1)

ServiceSpec == SeqInit /\ [][ServiceNext]_vars
SessionSpec == SeqInit /\ [][SessionNext]_vars
\* the admin's edit dialogs, one request at a time
EditSpec == SeqInit /\ [][EditNext]_vars
\* registration and login, requests interleaved
AcctSpec == Init /\ [][AcctNext]_vars
\* the admin's updates, one request at a time
AdminSpec == SeqInit /\ [][AdminNext]_vars

\* ================================================================ claims
RECURSIVE SumRows(_)
SumRows(S) ==
    IF S = {} THEN 0
    ELSE LET r == CHOOSE x \in S : TRUE IN r.quantity + SumRows(S \ {r})

\* orders whose second commit has not happened yet
Placing == {loc[p].order_id : p \in {q \in Procs : pc[q] \in {"order_stock", "order_commit"}}}

\* C1: in every reachable state, under any interleaving of add_to_cart,
\* create_order_from_cart, update_dish and delete_dish, every dish has
\* stock_quantity >= 0.
C1_StockNeverNegative == \A d \in DishIds : dishes[d].stock_quantity >= 0

\* C2: a dish seeded with one portion and never edited by an admin; two
\* different users each check out a cart holding just that dish, quantity 1.
\* Then at most one of the two checkouts produces an order, and once one has,
\* the stock of the dish is 0.
C2_OneCheckoutWins ==
    calls.admin = 0 =>
      \A d \in DishIds : seed[d].stock_quantity = 1 =>
        LET winners == {o \in DOMAIN orders :
                          /\ Len(ItemsOfOrder(items, o)) = 1
                          /\ ItemsOfOrder(items, o)[1].dish_id = d
                          /\ ItemsOfOrder(items, o)[1].quantity = 1}
        IN /\ \A o1, o2 \in winners : orders[o1].user_id # orders[o2].user_id => o1 = o2
           /\ winners # {} => dishes[d].stock_quantity = 0

\* C3: the order row, its items, the stock decrements and the cart deletion
\* are one atomic unit: no state shows an order without its order items, or
\* with items that do not add up to its total.
C3_OrderNeverWithoutItems ==
    \A o \in DOMAIN orders :
        /\ ItemsOfOrder(items, o) # <<>>
        /\ SumSubtotals(ItemsOfOrder(items, o)) = orders[o].total_amount

\* C4: when create_order_from_cart returns failure, the dishes, the orders,
\* the order items and the cart are exactly as they were when it was called.
C4_FailedOrderChangesNothing ==
    [][(ret'.op = "order" /\ ~ret'.ok) =>
          /\ dishes' = Before.dishes
          /\ cart' = Before.cart
          /\ orders' = Before.orders
          /\ items' = Before.items]_vars

\* C4 witness: a checkout has just failed on the second line of a cart whose
\* first line is still orderable.
C4_Witness ==
    /\ ret.op = "order" /\ ~ret.ok
    /\ \E r1, r2 \in CartOf(cart, ret.user_id) :
         /\ r1.id < r2.id
         /\ dishes[r1.dish_id].is_available
         /\ dishes[r1.dish_id].stock_quantity >= r1.quantity
         /\ \/ ~dishes[r2.dish_id].is_available
            \/ dishes[r2.dish_id].stock_quantity < r2.quantity

\* the cart of u can be checked out against the tables t
CheckoutAllowed(t, u) ==
    /\ CartOf(t.cart, u) # {}
    /\ \A r \in CartOf(t.cart, u) :
         /\ r.dish_id \in DOMAIN t.dishes
         /\ t.dishes[r.dish_id].is_available
         /\ t.dishes[r.dish_id].stock_quantity >= r.quantity

\* C5: create_order_from_cart returns an order if and only if, at checkout
\* time, the cart is non-empty and every line's dish exists, is available and
\* has stock_quantity >= the line's quantity.
C5_CheckoutRevalidates ==
    [][ret'.op = "order" => (ret'.ok <=> CheckoutAllowed(Before, ret'.user_id))]_vars

\* C5 witness: a checkout has just failed although its line fitted the seeded
\* stock: another user's order, or an admin, took the stock or hid the dish
\* after the line was added.
C5_Witness ==
    /\ ret.op = "order" /\ ~ret.ok
    /\ \E r \in CartOf(cart, ret.user_id) :
         /\ r.quantity <= seed[r.dish_id].stock_quantity
         /\ dishes[r.dish_id].is_available
         /\ dishes[r.dish_id].stock_quantity < r.quantity
         /\ \E i \in DOMAIN items : /\ items[i].dish_id = r.dish_id
                                    /\ orders[items[i].order_id].user_id # ret.user_id

\* C6: after a successful create_order_from_cart of user u, u's cart is
\* empty, the order has one item per cart line with the line's dish and
\* quantity, and every dish's stock is its stock before the call minus the
\* quantity bought.
C6_SuccessfulOrderEffects ==
    [][(ret'.op = "order" /\ ret'.ok) =>
          LET u == ret'.user_id
              rows == SortById(CartOf(Before.cart, u))
              its == ItemsOfOrder(items', ret'.id)
          IN /\ CartOf(cart', u) = {}
             /\ Len(its) = Len(rows)
             /\ \A i \in 1..Len(rows) : /\ its[i].dish_id = rows[i].dish_id
                                        /\ its[i].quantity = rows[i].quantity
             /\ \A d \in DishIds :
                  dishes'[d].stock_quantity =
                    Before.dishes[d].stock_quantity
                      - SumRows({r \in CartOf(Before.cart, u) : r.dish_id = d})]_vars

\* C6 witness: price 15.99, quantity 2: total 31.98, one item, stock lowered by 2
C6_Witness ==
    /\ ret.op = "order" /\ ret.ok
    /\ orders[ret.id].total_amount = 3198
    /\ ItemsOfOrder(items, ret.id) =
         <<[order_id |-> ret.id, dish_id |-> 1, quantity |-> 2,
            unit_price |-> 1599, subtotal |-> 3198]>>
    /\ dishes[1].stock_quantity = seed[1].stock_quantity - 2
    /\ CartOf(cart, ret.user_id) = {}

\* C7: for every order that create_order_from_cart has returned, each item's
\* subtotal is unit_price * quantity and the order's total_amount is the sum
\* of its items' subtotals, in whole cents.
C7_TotalsExact ==
    \A o \in DOMAIN orders \ Placing :
        LET its == ItemsOfOrder(items, o)
        IN /\ \A i \in 1..Len(its) : its[i].subtotal = its[i].unit_price * its[i].quantity
           /\ orders[o].total_amount = SumSubtotals(its)

\* C7 witness: a returned order of two lines, one of them of quantity 2
C7_Witness ==
    \E o \in DOMAIN orders \ Placing :
        LET its == ItemsOfOrder(items, o)
        IN /\ Len(its) = 2
           /\ \E i \in 1..2 : its[i].quantity = 2 /\ its[i].subtotal = 3198
           /\ orders[o].total_amount = 3198 + 1299

\* C8: an order item's unit_price is the dish price when the order was placed,
\* and no later request changes an existing order item or the total_amount of
\* an existing order.
C8_ReceiptImmutable ==
    [][/\ \A o \in DOMAIN orders :
            o \in DOMAIN orders' /\ orders'[o].total_amount = orders[o].total_amount
       /\ \A i \in DOMAIN items : i \in DOMAIN items' /\ items'[i] = items[i]
       /\ (ret'.op = "order" /\ ret'.ok) =>
            \A i \in DOMAIN items' \ DOMAIN items :
                items'[i].unit_price = Before.dishes[items'[i].dish_id].price]_vars

\* C8 witness: an admin has just changed the price of a dish that an order
\* item holds at the old price
C8_Witness ==
    /\ ret.op = "update_dish" /\ ret.ok
    /\ \E i \in DOMAIN items :
         /\ items[i].dish_id = ret.id
         /\ items[i].unit_price # dishes[ret.id].price
         /\ items[i].unit_price = seed[ret.id].price

\* C9: the cart never holds two rows for the same (user, dish), also when two
\* add_to_cart requests for the same user and dish interleave.
C9_OneRowPerUserDish ==
    \A r1, r2 \in cart :
        (r1.user_id = r2.user_id /\ r1.dish_id = r2.dish_id) => r1 = r2

\* C10: add_to_cart(user, dish, q) fails and leaves the cart unchanged when
\* the dish is missing, not available, or existing quantity + q exceeds the
\* stock; otherwise it succeeds, the (user, dish) row holds existing + q,
\* which is then at most the stock, and no other row changes.
C10_AddToCart ==
    [][ret'.op = "add" =>
          LET u == ret'.user_id
              d == ret'.dish_id
              q == ret'.quantity
              dish == GetDish(Before.dishes, d)
              old == CartRows(Before.cart, u, d)
              existing == SumRows(old)
              refused == \/ ~dish.exists
                         \/ ~dish.is_available
                         \/ existing + q > dish.stock_quantity
          IN /\ ret'.ok <=> ~refused
             /\ ~ret'.ok => cart' = Before.cart
             /\ ret'.ok =>
                  \E r \in cart' :
                      /\ r.id = ret'.id /\ r.user_id = u /\ r.dish_id = d
                      /\ r.quantity = existing + q
                      /\ r.quantity <= dish.stock_quantity
                      /\ CartRows(cart', u, d) = {r}
                      /\ cart' \ {r} = Before.cart \ old]_vars

\* C10 witness: an add has just raised the quantity of a row that existed
C10_Witness ==
    /\ ret.op = "add" /\ ret.ok
    /\ \E r \in cart : r.id = ret.id /\ r.quantity > ret.quantity

\* the rows S priced row by row with the prices of the dishes table t
RECURSIVE PricedRows(_, _)
PricedRows(t, S) ==
    IF S = {} THEN 0
    ELSE LET r == CHOOSE x \in S : TRUE
         IN t[r.dish_id].price * r.quantity + PricedRows(t, S \ {r})

\* C11: get_cart_total(user) is the sum over the user's current cart rows of
\* the dish's current price times the row's quantity, 0 for an empty cart; a
\* price changed by update_dish is the price the total is computed with.
C11_CartTotalCurrentPrices ==
    [][ret'.op = "total" =>
          /\ ret'.total = PricedRows(dishes, CartOf(cart, ret'.user_id))
          /\ CartOf(cart, ret'.user_id) = {} => ret'.total = 0
          /\ UNCHANGED db]_vars

\* C11 witness: the total of a cart of quantity 2 has just been computed at
\* the price an admin changed the dish to after it went into the cart
C11_Witness ==
    /\ ret.op = "total"
    /\ \E r \in cart :
         /\ CartOf(cart, ret.user_id) = {r}
         /\ r.quantity = 2
         /\ dishes[r.dish_id].price = PriceC
         /\ seed[r.dish_id].price # PriceC
         /\ ret.total = 2 * PriceC

\* C12: an order is pending at the moment create_order_from_cart creates it,
\* and an order only gets another status in a step of update_order_status.
C12_BornPending ==
    [][/\ \A o \in DOMAIN orders' \ DOMAIN orders : orders'[o].status = "pending"
       /\ \A o \in DOMAIN orders :
            (orders'[o].status # orders[o].status)
              => (ret'.op = "update_order_status" /\ ret'.order_id = o)]_vars

\* C12 witness: the first order was moved on by update_order_status, and the
\* order placed after that is pending
C12_Witness ==
    /\ ret.op = "order" /\ ret.ok /\ ret.id = 2
    /\ orders[1].status = "preparing"
    /\ orders[2].status = "pending"

\* the transitions of the order status machine
StatusTransitions ==
    {<<"pending", "confirmed">>, <<"pending", "cancelled">>,
     <<"confirmed", "preparing">>, <<"confirmed", "cancelled">>,
     <<"preparing", "ready">>, <<"preparing", "cancelled">>,
     <<"ready", "completed">>}

\* C13: every change of an order's status is a transition of the machine
\* pending -> {confirmed, cancelled}, confirmed -> {preparing, cancelled},
\* preparing -> {ready, cancelled}, ready -> completed; a completed or
\* cancelled order never changes status again.
C13_StatusMachine ==
    [][\A o \in DOMAIN orders :
          (orders'[o].status # orders[o].status)
            => <<orders[o].status, orders'[o].status>> \in StatusTransitions]_vars

\* C14: update_order_status(order_id, s) on an existing order sets its status
\* to s whatever the status was and changes nothing else of the order, of its
\* items, of the dishes or of the carts; on an id with no order it returns
\* not-found and changes nothing.
C14_StatusOverwrite ==
    [][ret'.op = "update_order_status" =>
          LET o == ret'.order_id IN
          /\ ret'.ok <=> o \in DOMAIN orders
          /\ DOMAIN orders' = DOMAIN orders
          /\ \A i \in DOMAIN orders :
               /\ orders'[i].user_id = orders[i].user_id
               /\ orders'[i].total_amount = orders[i].total_amount
               /\ orders'[i].status = IF i = o THEN ret'.status ELSE orders[i].status
          /\ UNCHANGED <<items, dishes, cart>>]_vars

\* C14 witness: a completed order has just been set back to pending
C14_Witness ==
    /\ ret.op = "update_order_status" /\ ret.ok
    /\ ret.was = "completed"
    /\ ret.status = "pending"
    /\ orders[ret.id].status = "pending"

\* no two rows of the users table t hold the same e-mail
UniqueEmails(t) == \A i, j \in DOMAIN t : t[i].email = t[j].email => i = j

\* C15: register_user with an e-mail that is already registered fails, creates
\* no user and leaves the existing record unchanged; no two users ever share
\* an e-mail, also when two registrations of one e-mail interleave.
C15_EmailsUnique ==
    /\ UniqueEmails(users)
    /\ [][/\ (ret'.op = "register" /\ FindByEmail(users, ret'.email) # {})
               => (~ret'.ok /\ users' = users)
          /\ \A i \in DOMAIN users : i \in DOMAIN users' /\ users'[i] = users[i]
          /\ UniqueEmails(users')]_vars

\* C15 witness: of two interleaved registrations of one e-mail, the second
\* has just failed at its commit, the first one's row standing
C15_Witness ==
    /\ ret.op = "register" /\ ~ret.ok /\ ret.raised
    /\ \E i \in DOMAIN users : i > Len(SeedUsers) /\ users[i].email = ret.email

\* C16: every user created by register_user is a regular user, and no request
\* changes the role of a user: the only admin is the one the seed promoted.
C16_RegisteredAreRegular ==
    [][/\ \A i \in DOMAIN users' \ DOMAIN users : users'[i].role = "regular"
       /\ \A i \in DOMAIN users : users'[i].role = users[i].role
       /\ \A i \in DOMAIN users' : users'[i].role = "admin" => i \in DOMAIN SeedUsers]_vars

\* C16 witness: a user registered under the other spelling of an e-mail has
\* logged in and is a regular user
C16_Witness ==
    /\ ret.op = "login" /\ ret.ok
    /\ ret.id > Len(SeedUsers)
    /\ users[ret.id].email = "Test@example.com"
    /\ users[ret.id].role = "regular"
    /\ storage.user_role = "regular"
    /\ ret.navigate = "/dashboard"

\* C17: authenticate_user(email, password) returns the user exactly when a
\* user with exactly that e-mail (letter case included) was registered with
\* exactly that password, returns no identity for every other pair, and
\* writes nothing.
C17_AuthenticateExact ==
    [][ret'.op = "authenticate" =>
          LET match == {i \in DOMAIN users : /\ users[i].email = ret'.email
                                             /\ typed[i] = ret'.password}
          IN /\ ret'.ok <=> match # {}
             /\ ret'.ok => ret'.id \in match
             /\ ~ret'.ok => ret'.id = 0
             /\ UNCHANGED <<users, departments, storage, typed, db>>]_vars

\* C17 witness: the right password under the other spelling of a registered
\* e-mail has just been turned down
C17_Witness ==
    /\ ret.op = "authenticate" /\ ~ret.ok
    /\ ret.email = "Test@example.com"
    /\ FindByEmail(users, "Test@example.com") = {}
    /\ \E i \in DOMAIN users : users[i].email = "test@example.com" /\ typed[i] = ret.password

\* C18: a failed login does not tell an unknown e-mail from a wrong password:
\* authenticate_user returns the same nothing, and the login handler shows the
\* same message, goes nowhere and leaves the session storage as it was.
C18_FailureTellsNothing ==
    [][/\ (ret'.op = "authenticate" /\ ~ret'.ok) => ret'.id = 0
       /\ (ret'.op = "login" /\ ~ret'.ok /\ ret'.email # "" /\ ret'.password # "")
            => /\ ret'.message = "Invalid email or password"
               /\ ret'.navigate = ""
               /\ ret'.id = 0
               /\ storage' = storage]_vars

\* C18 witness: a login with a registered e-mail and a wrong password has just
\* failed in a browser that holds another login
C18_Witness ==
    /\ ret.op = "login" /\ ~ret.ok
    /\ ret.password # ""
    /\ FindByEmail(users, ret.email) # {}
    /\ storage # NoStorage
    /\ storage.user_email # ret.email

\* C19: register_user stores hash_password(password) and never the password;
\* hash_password gives equal outputs for equal inputs, an output that differs
\* from its input, and different outputs for different passwords.
C19_OnlyTheHashIsStored ==
    /\ \A i \in DOMAIN users :
         /\ users[i].password_hash = hash_password(typed[i])
         /\ users[i].password_hash # typed[i]
    /\ \A p1, p2 \in Passwords :
         /\ hash_password(p1) # p1
         /\ (p1 = p2) <=> (hash_password(p1) = hash_password(p2))

\* C19 witness: two users are registered, one of them with a password that is
\* the digest stored for the admin
C19_Witness ==
    /\ Len(users) = Len(SeedUsers) + 2
    /\ \E i \in DOMAIN users : /\ typed[i] = AdminDigest
                               /\ users[1].password_hash = typed[i]
                               /\ users[i].password_hash # typed[i]

C21_SoftDelete ==
    [][/\ (ret'.op = "delete_dish" /\ ret'.ok) =>
            /\ dishes' = [dishes EXCEPT ![ret'.id].is_available = FALSE]
            /\ get_dish_by_id(dishes', ret'.id) =
                  [get_dish_by_id(dishes, ret'.id) EXCEPT !.is_available = FALSE]
            /\ \E r \in get_all_dishes(dishes') : r.id = ret'.id
            /\ \A r \in get_available_dishes(dishes') : r.id # ret'.id
            /\ cart' = cart /\ orders' = orders /\ items' = items
            /\ \A i \in DOMAIN items' : get_dish_by_id(dishes', items'[i].dish_id).exists
            /\ departments' = departments /\ users' = users
       /\ (ret'.op = "delete_department" /\ ret'.ok) =>
            /\ departments' = [departments EXCEPT ![ret'.id].is_active = FALSE]
            /\ \A r \in get_all_departments(departments') : r.id # ret'.id
            /\ users' = users /\ db' = db
       /\ (ret'.op = "add" /\ ret'.ok) =>
            get_dish_by_id(dishes, ret'.dish_id).is_available
       /\ (ret'.op = "order" /\ ret'.ok) =>
            \A it \in {items'[i] : i \in DOMAIN items' \ DOMAIN items} :
                get_dish_by_id(dishes, it.dish_id).is_available
      ]_vars

\* a dish with an order item was withdrawn while it had stock and sat in a
\* cart: the checkout of that cart has just been refused
C21_Witness ==
    /\ ret.op = "order" /\ ~ret.ok
    /\ \E row \in CartOf(cart, ret.user_id) :
          /\ ~dishes[row.dish_id].is_available
          /\ dishes[row.dish_id].stock_quantity >= row.quantity
          /\ \E i \in DOMAIN items : items[i].dish_id = row.dish_id
    /\ \E i \in DOMAIN departments : ~departments[i].is_active
UniqueNames(t) == \A i, j \in DOMAIN t : t[i].name = t[j].name => i = j

\* C22: create_department with a name that a stored department has, active
\* or not, returns None and stores nothing; after every create_department,
\* update_department and delete_department no two departments have the same
\* name.
C22_DepartmentNamesUnique ==
    [][/\ UniqueNames(departments')
       /\ (ret'.op = "create_department"
            /\ \E i \in DOMAIN departments : departments[i].name = ret'.name) =>
              (~ret'.ok /\ departments' = departments)
       /\ (ret'.op = "create_department" /\ ret'.ok) =>
              /\ Len(departments') = Len(departments) + 1
              /\ departments'[ret'.id].name = ret'.name
       /\ (ret'.op = "update_department" /\ ~ret'.ok) => departments' = departments
      ]_vars

\* a department was created, another one deactivated, and a create with the
\* name of the deactivated one has just been refused
C22_Witness ==
    /\ ret.op = "create_department" /\ ~ret.ok
    /\ Len(departments) > Len(SeedDepartments)
    /\ \E i \in DOMAIN departments : departments[i].name = ret.name /\ ~departments[i].is_active
\* C23: update_cart_item(user, cart_item, new_quantity) replaces the quantity
\* of the user's row when new_quantity is at least 1 and at most the current
\* stock of the row's dish; in every other case it fails and the cart is as
\* it was; no other table changes.
C23_UpdateCartItem ==
    [][ret'.op = "update_quantity" =>
         LET rows == {r \in cart : r.id = ret'.id /\ r.user_id = ret'.user_id}
             allowed == /\ rows # {}
                        /\ ret'.quantity >= 1
                        /\ \A r \in rows : ret'.quantity <= dishes[r.dish_id].stock_quantity
         IN /\ ret'.ok = allowed
            /\ allowed => cart' = {IF r \in rows THEN [r EXCEPT !.quantity = ret'.quantity]
                                                  ELSE r : r \in cart}
            /\ ~allowed => cart' = cart
            /\ dishes' = dishes /\ orders' = orders /\ items' = items
      ]_vars

\* an order has lowered the stock of a dish, and the new quantity of a cart
\* row, which the stock as seeded allowed, has just been refused
C23_Witness ==
    /\ ret.op = "update_quantity" /\ ~ret.ok /\ ret.quantity >= 1
    /\ \E r \in cart : /\ r.id = ret.id /\ r.user_id = ret.user_id
                        /\ ret.quantity > dishes[r.dish_id].stock_quantity
                        /\ ret.quantity <= seed[r.dish_id].stock_quantity
\* C24: clear_cart(user) succeeds, deletes the cart rows of that user and no
\* other row, and get_cart_items(user) is empty afterwards; the carts of the
\* other users, the dishes with their stock, the orders and the order items
\* are as before; on an empty cart it succeeds and changes nothing.
C24_ClearCart ==
    [][ret'.op = "clear" =>
         /\ ret'.ok
         /\ get_cart_items(cart', ret'.user_id) = <<>>
         /\ \A v \in Users \ {ret'.user_id} : get_cart_items(cart', v) = get_cart_items(cart, v)
         /\ cart' \subseteq cart
         /\ dishes' = dishes /\ orders' = orders /\ items' = items
         /\ get_cart_items(cart, ret'.user_id) = <<>> => cart' = cart
      ]_vars

\* before any order was placed a cart has just been cleared of at least one
\* row, while another user's cart holds a row
C24_Witness ==
    /\ ret.op = "clear"
    /\ orders = <<>>
    /\ nextCartId > Cardinality(cart) + 1
    /\ \E v \in Users \ {ret.user_id} : get_cart_items(cart, v) # <<>>
\* C25: add_to_cart(u, ...) and create_order_from_cart(u, ...) create, change
\* and delete cart rows of u only, the order created is owned by u, and for
\* every other user v get_cart_items(v) and get_user_orders(v) return after
\* the request what they returned when it was called.
C25_OwnRowsOnly ==
    [][ret'.op \in {"add", "order"} =>
         /\ \A r \in (cart' \ Before.cart) \cup (Before.cart \ cart') :
                r.user_id = ret'.user_id
         /\ \A v \in Users \ {ret'.user_id} :
                /\ get_cart_items(cart', v) = get_cart_items(Before.cart, v)
                /\ get_user_orders(orders', v) = get_user_orders(Before.orders, v)
         /\ (ret'.op = "order" /\ ret'.ok) =>
                /\ Len(orders') = Len(Before.orders) + 1
                /\ orders'[ret'.id].user_id = ret'.user_id
      ]_vars

\* an order of one user has just been placed, which emptied that user's
\* cart, while another user holds a cart row
C25_Witness ==
    /\ ret.op = "order" /\ ret.ok
    /\ get_user_orders(orders, ret.user_id) # <<>>
    /\ get_cart_items(cart, ret.user_id) = <<>>
    /\ \E v \in Users \ {ret.user_id} : get_cart_items(cart, v) # <<>>
RowsKept(old, new) == Len(new) >= Len(old) /\ \A i \in DOMAIN old : i \in DOMAIN new

\* C26: no request removes a row of departments, dishes, users, orders or
\* order_items: every row of these tables is there after every step, and an
\* order and its items keep what they recorded; rows of cart_items are
\* the only ones deleted, and only by clear_cart, by the removal of a row
\* from the cart and by a successful create_order_from_cart.
C26_OnlyCartRowsAreDeleted ==
    [][/\ RowsKept(departments, departments')
       /\ RowsKept(users, users')
       /\ RowsKept(orders, orders')
       /\ RowsKept(items, items')
       /\ \A i \in DOMAIN items : items'[i] = items[i]
       /\ DOMAIN dishes \subseteq DOMAIN dishes'
       /\ (\E r \in cart : \A r2 \in cart' : r2.id # r.id) =>
             \/ ret'.op \in {"clear", "remove_item"}
             \/ ret'.op = "order" /\ ret'.ok
      ]_vars

\* with an order and its item stored, a user registered, a department added
\* and a dish and a department soft-deleted, a row has just been removed
\* from a cart
C26_Witness ==
    /\ ret.op = "remove_item" /\ ret.ok
    /\ orders # <<>> /\ items # <<>>
    /\ Len(users) > Len(SeedUsers)
    /\ Len(departments) > Len(SeedDepartments)
    /\ \E d \in DOMAIN dishes : ~dishes[d].is_available
    /\ \E i \in DOMAIN departments : ~departments[i].is_active
UserOps == {"add", "order", "update_quantity", "remove_item", "clear", "total"}

\* C27: in one browser a request for /dashboard, /cart, /orders or /profile
\* renders the page when the session holds a user_id and navigates to /login
\* without rendering otherwise; every step of a cart or order operation is
\* taken while the session holds a user_id, for that user; the session comes
\* to hold a user_id only by a login whose authenticate_user returned that
\* user, and holds none after a logout.
C27_UserPagesNeedLogin ==
    [][/\ (ret'.op = "page" /\ ret'.path \in UserPages) =>
            IF storage.user_id # 0
            THEN ret'.ok /\ page' = Render(ret'.path, storage.user_id)
            ELSE ~ret'.ok /\ ret'.navigate = "/login" /\ ~page'.rendered
       /\ ret'.op \in UserOps => (storage.user_id # 0 /\ ret'.user_id = storage.user_id)
       /\ \A p \in Procs : pc'[p] # pc[p] =>
            /\ storage.user_id # 0
            /\ pc[p] # "idle" => loc[p].user_id = storage.user_id
            /\ pc'[p] # "idle" => loc'[p].user_id = storage.user_id
       /\ <<cart, orders, items>>' # <<cart, orders, items>> => storage.user_id # 0
       /\ (storage' # storage /\ storage'.user_id # 0) =>
            /\ ret'.op = "login" /\ ret'.ok
            /\ Authenticate(users, ret'.email, ret'.password) = storage'.user_id
       /\ ret'.op = "logout" => storage' = NoStorage
      ]_vars

AdminOps == {"update_dish", "delete_dish", "update_order_status", "create_department",
             "update_department", "delete_department"}

\* C28: a request for /admin, /admin/dishes, /admin/departments or
\* /admin/reports renders the page when the session holds a user_id and the
\* role admin, which is the role the user had at the login, and otherwise
\* navigates to /login, renders nothing and changes no table; dishes,
\* departments and order statuses are changed only by the admin requests,
\* and these are made only from a session of an admin.
C28_AdminPagesNeedAdmin ==
    [][/\ (ret'.op = "page" /\ ret'.path \in AdminPages) =>
            /\ IF storage.user_id # 0 /\ storage.user_role = "admin"
               THEN ret'.ok /\ page' = Render(ret'.path, 0)
               ELSE ~ret'.ok /\ ret'.navigate = "/login" /\ ~page'.rendered
            /\ db' = db /\ departments' = departments /\ users' = users
       /\ ret'.op \in AdminOps => (storage.user_id # 0 /\ storage.user_role = "admin")
       /\ (\/ departments' # departments
            \/ \E d \in DOMAIN dishes : \/ dishes'[d].is_available # dishes[d].is_available
                                          \/ dishes'[d].price # dishes[d].price
            \/ \E o \in DOMAIN orders : orders'[o].status # orders[o].status) =>
              ret'.op \in AdminOps
       /\ (storage' # storage /\ storage'.user_id # 0) =>
            /\ ret'.op = "login"
            /\ storage'.user_role = users[storage'.user_id].role
      ]_vars

\* C29: after the admin submits the Edit Dish or Edit Department dialog the
\* stored row holds the value of every input that was changed, every field
\* whose input was left as shown keeps its value, and so does the
\* availability or active flag; no other row changes. (An edit to the name
\* of another department is left out: the unique index refuses it.)
C29_EditChangesOnlyChanged ==
    [][/\ ret'.op = "edit_dish" =>
            /\ dishes'[ret'.row_id].price = ret'.price_input
            /\ dishes'[ret'.row_id].stock_quantity = ret'.stock_input
            /\ dishes'[ret'.row_id].is_available = dishes[ret'.row_id].is_available
            /\ \A d \in DOMAIN dishes \ {ret'.row_id} : dishes'[d] = dishes[d]
       /\ (/\ ret'.op = "update_department"
            /\ DOMAIN ret'.update_data = {"name", "description"}
            /\ ~NameTaken(departments, ret'.row_id, ret'.update_data.name)) =>
              LET old == departments[ret'.row_id]
                  new == departments'[ret'.row_id]
              IN /\ new.name = IF ret'.update_data.name = None THEN old.name
                                                               ELSE ret'.update_data.name
                 /\ new.description = IF ret'.update_data.description = None
                                      THEN old.description
                                      ELSE ret'.update_data.description
                 /\ new.is_active = old.is_active
                 /\ \A i \in DOMAIN departments \ {ret'.row_id} :
                        departments'[i] = departments[i]
      ]_vars
RECURSIVE OrderedQuantity(_, _)
OrderedQuantity(s, d) ==
    IF s = <<>> THEN 0
    ELSE (IF Head(s).dish_id = d THEN Head(s).quantity ELSE 0) + OrderedQuantity(Tail(s), d)

\* C30: while no admin has edited a dish, in every state and under any
\* interleaving of add_to_cart, clear_cart and create_order_from_cart, the
\* stock_quantity of every dish plus the quantities of the order items that
\* reference it is what the dish was stocked with.
C30_StockConserved ==
    calls.admin = 0 =>
      \A d \in DishIds :
        dishes[d].stock_quantity + OrderedQuantity(items, d) = seed[d].stock_quantity
====
